---------------------------- MODULE Spec2Model ----------------------------
(***************************************************************************)
(* Model of "Phase_1 Machine_Translation.ipynb": the fill-in-the-blank     *)
(* sequence-to-sequence translation notebook (cells, Seq2Seq.forward,      *)
(* train, evaluate) and the "Callables and Methods" tutorial notebook      *)
(* (Adder, Person) stored behind it in the same file.                      *)
(*                                                                         *)
(* Six specifications, one per part of the program:                        *)
(*   SpecNotebook  the kernel running the translation notebook's cells     *)
(*   SpecForward   one call of Seq2Seq.forward                             *)
(*   SpecTrain     one call of train or of evaluate                        *)
(*   SpecAdder     the Adder cells of the tutorial notebook                *)
(*   SpecPerson    the Person cells of the tutorial notebook               *)
(*   SpecLoop      the training-loop cell, statement by statement          *)
(***************************************************************************)
EXTENDS Integers, Sequences, FiniteSets, TLC

VARIABLES
    \* ---- the kernel running the translation notebook
    cellIdx,    \* index in Cells of the next code cell to execute
    ns,         \* the kernel's global namespace: the set of bound names
    env,        \* what the environment provides: the library calls that succeed
    runAll,     \* TRUE: "run all" (stop at the first error); FALSE: cell by cell
    kstatus,    \* "idle", "ok", "error" (last cell raised), "halted" (run-all stopped)
    lastError,  \* the last exception raised: [kind, name, cell]
    failed,     \* the cells that raised: their indices in Cells
    events      \* what ran and printed so far: a sequence of <<label, epoch>>

nbVars == <<cellIdx, ns, env, runAll, kstatus, lastError, failed, events>>

\* ---- one call of Seq2Seq.forward(src, trg)
VARIABLES
    genv,       \* the globals forward's free names resolve in: [bound, trg_len, decoder_input]
    trg,        \* the target tensor: its rows trg[0..], here trg[1..Len(trg)]
    fpc,        \* position in forward: "alloc", "encode", "loop", "returned", "raised"
    ferr,       \* the exception forward raised: [kind, name]
    outputs,    \* the local outputs: one row per position, "zeros" until written
    hidden,     \* the local hidden
    step,       \* the loop variable
    callLog     \* the calls of self.encoder and self.decoder made so far, in order

fwVars == <<genv, trg, fpc, ferr, outputs, hidden, step, callLog>>

\* ---- one call of train(model, iterator, optimizer, criterion, clip) or of
\* ---- evaluate(model, iterator, criterion)
VARIABLES
    tfn,        \* the function called: "train" or "evaluate"
    nBatches,   \* len(iterator): the number of batches the iterator yields
    tpc,        \* position in the function
    terr,       \* the exception the call raised: [kind, name]
    bi,         \* enumerate's i + 1: the number of the batch in hand, 0 before the first
    trgLen,     \* number of rows of the batch's trg (and of the model's output)
    lossArgs,   \* the rows of output and of trg last handed to criterion
    lossVal,    \* loss.item() of the batch in hand
    losses,     \* the value of every loss criterion has returned, in batch order
    epoch_loss, \* the local epoch_loss
    grad,       \* the batches whose backward pass is summed in the parameters' .grad
    clipped,    \* whether .grad was clipped since the last backward pass
    ops,        \* what this iteration has done so far, in order
    updates,    \* every optimizer.step() so far: [batch, grad, ops before it]
    result      \* the value returned: the quotient num / den

trVars == <<tfn, nBatches, tpc, terr, bi, trgLen, lossArgs, lossVal, losses,
            epoch_loss, grad, clipped, ops, updates, result>>

\* ---- the Adder cells of the tutorial notebook
VARIABLES
    adder,      \* the instance plus_3 is bound to: [bound, n]
    builtN,     \* the argument the instance was constructed with
    ncalls,     \* calls of the instance so far
    lastCall    \* the last call of the instance: [made, x, selfN, method, value]

adVars == <<adder, builtN, ncalls, lastCall>>

\* ---- the Person cells of the tutorial notebook
VARIABLES
    personDef,  \* the class statement the name Person is bound to: 0 (unbound), 1, 2, 3
    p,          \* the instance the name p is bound to: [bound, id, cls, dict]
    nObjs,      \* instances constructed so far
    lastHello,  \* the last call of say_hello through the class and through an
                \* instance: [made, recv, args, err] each
    lastSet     \* the last set_name that returned: [recv, value, forms]

peVars == <<personDef, p, nObjs, lastHello, lastSet>>

\* ---- the training-loop cell, statement by statement
VARIABLES
    lpc,        \* "idle", "iter" (at the for statement), "body", "done", "raised"
    lepoch,     \* iterations of the for statement begun so far (the value of epoch + 1)
    lpos        \* index in the loop's body of the next statement to execute

lpVars == <<lpc, lepoch, lpos>>

vars == <<nbVars, fwVars, trVars, adVars, peVars, lpVars>>

(***************************************************************************)
(* Part 1: the translation notebook's code cells.                          *)
(*                                                                         *)
(* A statement names, in evaluation order, the global names it reads       *)
(* (reads), the library call whose outcome the environment decides         *)
(* (mayFail, "none" when there is none), the global names read by the      *)
(* user functions that call runs (cb), the names it binds (binds) and what *)
(* it prints (out, "none" when nothing).  An attribute that only a         *)
(* learner-written call creates is a dotted name ("SRC.vocab").            *)
(***************************************************************************)
Stmt(reads, mayFail, cb, binds, out) ==
    [reads |-> reads, mayFail |-> mayFail, cb |-> cb, binds |-> binds, out |-> out]

NoLoop == [count |-> 0, body |-> <<>>]

\* A cell: does it compile, its statements, and its trailing for-loop if any.
Cell(syntaxOK, stmts, loop) ==
    [syntaxOK |-> syntaxOK, stmts |-> stmts, loop |-> loop]

NoError == [kind |-> "none", name |-> "none"]

CellImports ==
    Cell(TRUE,
         << Stmt(<<>>, "none", <<>>, {"time", "math", "random"}, "none"),
            Stmt(<<>>, "spacy", <<>>, {"spacy"}, "none"),
            Stmt(<<>>, "numpy", <<>>, {"np"}, "none"),
            Stmt(<<>>, "torch", <<>>, {"torch", "nn", "optim"}, "none"),
            Stmt(<<>>, "torchtext", <<>>, {"Multi30k", "Field", "BucketIterator"}, "none") >>,
         NoLoop)

\* "!python -m spacy download de": a shell escape; it raises nothing in the
\* kernel and binds nothing (whether the model got installed is env's deModel).
CellSpacyDownload == Cell(TRUE, <<>>, NoLoop)

CellSpacyLoad ==
    Cell(TRUE,
         << Stmt(<<"spacy">>, "deModel", <<>>, {"spacy_de"}, "none"),
            Stmt(<<"spacy">>, "enModel", <<>>, {"spacy_en"}, "none") >>,
         NoLoop)

CellTokenizeDe == Cell(TRUE, << Stmt(<<>>, "none", <<>>, {"tokenize_de"}, "none") >>, NoLoop)

CellTokenizeEn == Cell(TRUE, << Stmt(<<>>, "none", <<>>, {"tokenize_en"}, "none") >>, NoLoop)

CellFields ==
    Cell(TRUE,
         << Stmt(<<"Field", "tokenize_de">>, "none", <<>>, {"SRC"}, "none"),
            Stmt(<<"Field", "tokenize_en">>, "none", <<>>, {"TRG"}, "none") >>,
         NoLoop)

\* Multi30k.splits builds every example through the fields' tokenizers:
\* tokenize_de runs, and its body is "return tokens".
CellDataset ==
    Cell(TRUE,
         << Stmt(<<"Multi30k", "SRC", "TRG">>, "multi30k", <<"tokens">>,
                 {"train_data", "valid_data", "test_data"}, "none") >>,
         NoLoop)

CellExampleCounts ==
    Cell(TRUE,
         << Stmt(<<"train_data">>, "none", <<>>, {}, "n_train"),
            Stmt(<<"valid_data">>, "none", <<>>, {}, "n_valid"),
            Stmt(<<"test_data">>, "none", <<>>, {}, "n_test") >>,
         NoLoop)

CellFirstExample ==
    Cell(TRUE, << Stmt(<<"train_data">>, "none", <<>>, {}, "example") >>, NoLoop)

\* Two comment lines ("# TODO build vocabulary ..."): nothing executes.
CellBuildVocab == Cell(TRUE, <<>>, NoLoop)

CellVocabSizes ==
    Cell(TRUE,
         << Stmt(<<"SRC", "SRC.vocab">>, "none", <<>>, {}, "n_src_vocab"),
            Stmt(<<"TRG", "TRG.vocab">>, "none", <<>>, {}, "n_trg_vocab") >>,
         NoLoop)

CellDevice == Cell(TRUE, << Stmt(<<"torch">>, "none", <<>>, {"device"}, "none") >>, NoLoop)

CellBatchSize == Cell(TRUE, << Stmt(<<>>, "none", <<>>, {"BATCH_SIZE"}, "none") >>, NoLoop)

CellIterators ==
    Cell(TRUE,
         << Stmt(<<"BucketIterator", "train_data", "valid_data", "test_data",
                   "BATCH_SIZE", "device">>, "none", <<>>,
                 {"train_iterator", "valid_iterator", "test_iterator"}, "none") >>,
         NoLoop)

CellSampleBatch ==
    Cell(TRUE, << Stmt(<<"train_iterator">>, "none", <<>>, {"temp"}, "none") >>, NoLoop)

CellEncoder == Cell(TRUE, << Stmt(<<"nn">>, "none", <<>>, {"Encoder"}, "none") >>, NoLoop)

CellDecoder == Cell(TRUE, << Stmt(<<"nn">>, "none", <<>>, {"Decoder"}, "none") >>, NoLoop)

CellSeq2Seq == Cell(TRUE, << Stmt(<<"nn">>, "none", <<>>, {"Seq2Seq"}, "none") >>, NoLoop)

\* "INPUT_DIM = " ...: five assignments without a right-hand side.  The cell
\* does not compile, so N_LAYERS and DROPOUT are not bound either.
CellConfig ==
    Cell(FALSE,
         << Stmt(<<>>, "none", <<>>,
                 {"INPUT_DIM", "OUTPUT_DIM", "ENC_EMB_DIM", "DEC_EMB_DIM", "HID_DIM",
                  "N_LAYERS", "DROPOUT"}, "none") >>,
         NoLoop)

\* Encoder.__init__ and Decoder.__init__ read nn (nn.Dropout).
CellModel ==
    Cell(TRUE,
         << Stmt(<<"Encoder", "INPUT_DIM", "ENC_EMB_DIM", "HID_DIM", "N_LAYERS", "DROPOUT">>,
                 "none", <<"nn">>, {"encoder"}, "none"),
            Stmt(<<"Decoder", "OUTPUT_DIM", "DEC_EMB_DIM", "HID_DIM", "N_LAYERS", "DROPOUT">>,
                 "none", <<"nn">>, {"decoder"}, "none"),
            Stmt(<<"Seq2Seq", "encoder", "decoder", "device">>, "none", <<>>,
                 {"model"}, "none") >>,
         NoLoop)

CellInitWeights ==
    Cell(TRUE,
         << Stmt(<<>>, "none", <<>>, {"init_weights"}, "none"),
            Stmt(<<"model", "init_weights">>, "none", <<"nn">>, {}, "none") >>,
         NoLoop)

CellCountParameters ==
    Cell(TRUE,
         << Stmt(<<>>, "none", <<>>, {"count_parameters"}, "none"),
            Stmt(<<"count_parameters", "model">>, "none", <<>>, {}, "n_params") >>,
         NoLoop)

CellOptimizer ==
    Cell(TRUE, << Stmt(<<"optim", "model">>, "none", <<>>, {"optimizer"}, "none") >>, NoLoop)

\* "# TRG_PAD_IDX = " is a comment: the name is read and never bound.
CellCriterion ==
    Cell(TRUE,
         << Stmt(<<"nn", "TRG_PAD_IDX">>, "none", <<>>, {"criterion"}, "none") >>,
         NoLoop)

CellTrainDef == Cell(TRUE, << Stmt(<<>>, "none", <<>>, {"train"}, "none") >>, NoLoop)

CellEvaluateDef == Cell(TRUE, << Stmt(<<>>, "none", <<>>, {"evaluate"}, "none") >>, NoLoop)

CellEpochTime == Cell(TRUE, << Stmt(<<>>, "none", <<>>, {"epoch_time"}, "none") >>, NoLoop)

N_EPOCHS == 10

\* CellTrainingLoop with the two calls in the other order: evaluate on the
\* validation iterator first, then train.
CellTrainingLoopEvaluatesFirst ==
    Cell(TRUE,
         << Stmt(<<>>, "none", <<>>, {"N_EPOCHS", "CLIP", "best_valid_loss"}, "none") >>,
         [count |-> N_EPOCHS,
          body |->
            << Stmt(<<"time">>, "none", <<>>, {"epoch", "start_time"}, "none"),
               Stmt(<<"evaluate", "model", "valid_iterator", "criterion">>,
                    "evaluateCall", <<>>, {"valid_loss"}, "evaluate"),
               Stmt(<<"train", "model", "train_iterator", "criterion", "optimizer", "CLIP">>,
                    "trainCall", <<>>, {"train_loss"}, "train"),
               Stmt(<<"time">>, "none", <<>>, {"end_time"}, "none"),
               Stmt(<<"epoch_time", "start_time", "end_time">>, "none", <<>>,
                    {"epoch_mins", "epoch_secs"}, "none"),
               Stmt(<<"epoch", "epoch_mins", "epoch_secs">>, "none", <<>>, {}, "epoch_report"),
               Stmt(<<"train_loss", "math">>, "none", <<>>, {}, "train_report"),
               Stmt(<<"valid_loss", "math">>, "none", <<>>, {}, "valid_report") >>])

\* Whether train and evaluate return, once they are called, is decided by
\* the call (trainCall, evaluateCall): see SpecTrain for what happens inside.
CellTrainingLoop ==
    Cell(TRUE,
         << Stmt(<<>>, "none", <<>>, {"N_EPOCHS", "CLIP", "best_valid_loss"}, "none") >>,
         [count |-> N_EPOCHS,
          body |->
            << Stmt(<<"time">>, "none", <<>>, {"epoch", "start_time"}, "none"),
               Stmt(<<"train", "model", "train_iterator", "criterion", "optimizer", "CLIP">>,
                    "trainCall", <<>>, {"train_loss"}, "train"),
               Stmt(<<"evaluate", "model", "valid_iterator", "criterion">>,
                    "evaluateCall", <<>>, {"valid_loss"}, "evaluate"),
               Stmt(<<"time">>, "none", <<>>, {"end_time"}, "none"),
               Stmt(<<"epoch_time", "start_time", "end_time">>, "none", <<>>,
                    {"epoch_mins", "epoch_secs"}, "none"),
               Stmt(<<"epoch", "epoch_mins", "epoch_secs">>, "none", <<>>, {}, "epoch_report"),
               Stmt(<<"train_loss", "math">>, "none", <<>>, {}, "train_report"),
               Stmt(<<"valid_loss", "math">>, "none", <<>>, {}, "valid_report") >>])

\* CellTest with the blank given a value ("test_loss = 0").
CellTestFilled ==
    Cell(TRUE,
         << Stmt(<<>>, "none", <<>>, {"test_loss"}, "none"),
            Stmt(<<"test_loss", "math">>, "none", <<>>, {}, "test_report") >>,
         NoLoop)

\* "test_loss = " has no right-hand side: the cell does not compile.
CellTest ==
    Cell(FALSE,
         << Stmt(<<>>, "none", <<>>, {"test_loss"}, "none"),
            Stmt(<<"test_loss", "math">>, "none", <<>>, {}, "test_report") >>,
         NoLoop)

\* The code cells of the translation notebook, in document order.
Cells ==
    << CellImports, CellSpacyDownload, CellSpacyLoad, CellTokenizeDe, CellTokenizeEn,
       CellFields, CellDataset, CellExampleCounts, CellFirstExample, CellBuildVocab,
       CellVocabSizes, CellDevice, CellBatchSize, CellIterators, CellSampleBatch,
       CellEncoder, CellDecoder, CellSeq2Seq, CellConfig, CellModel, CellInitWeights,
       CellCountParameters, CellOptimizer, CellCriterion, CellTrainDef, CellEvaluateDef,
       CellEpochTime, CellTrainingLoop, CellTest >>

NCells == Len(Cells)

\* The global names the statements of stmts assign.
RECURSIVE BindsOf(_)
BindsOf(stmts) ==
    IF stmts = <<>> THEN {} ELSE Head(stmts).binds \cup BindsOf(Tail(stmts))

\* The global names the notebook's code can bind as shipped, in whatever
\* order its cells are run: what the statements of its compiling cells assign.
ShippedGlobals ==
    UNION { IF Cells[i].syntaxOK
            THEN BindsOf(Cells[i].stmts) \cup BindsOf(Cells[i].loop.body)
            ELSE {} : i \in 1..NCells }

\* What the environment may or may not provide.
Externals ==
    {"spacy", "numpy", "torch", "torchtext", "deModel", "enModel", "multi30k",
     "trainCall", "evaluateCall"}

\* The names the notebook tells the learner to supply (its TODO blanks).
LearnerNames ==
    {"tokens", "SRC.vocab", "TRG.vocab", "INPUT_DIM", "OUTPUT_DIM", "ENC_EMB_DIM",
     "DEC_EMB_DIM", "HID_DIM", "TRG_PAD_IDX", "test_loss",
     "trg_len", "batch_size", "trg_vocab_size", "decoder_input"}

\* The first name of the sequence that nsp does not bind, "none" if all are bound.
RECURSIVE FirstUnbound(_, _)
FirstUnbound(names, nsp) ==
    IF names = <<>> THEN "none"
    ELSE IF Head(names) \notin nsp THEN Head(names)
    ELSE FirstUnbound(Tail(names), nsp)

\* One statement in namespace nsp, epoch ep: [ns, err, events].
ExecStmt(st, nsp, e, ep) ==
    LET u == FirstUnbound(st.reads, nsp)
        c == FirstUnbound(st.cb, nsp)
    IN  IF u # "none"
        THEN [ns |-> nsp, err |-> [kind |-> "NameError", name |-> u], events |-> <<>>]
        ELSE IF st.mayFail # "none" /\ st.mayFail \notin e
        THEN [ns |-> nsp, err |-> [kind |-> "LibraryError", name |-> st.mayFail],
              events |-> <<>>]
        ELSE IF c # "none"
        THEN [ns |-> nsp, err |-> [kind |-> "NameError", name |-> c], events |-> <<>>]
        ELSE [ns |-> nsp \cup st.binds, err |-> NoError,
              events |-> IF st.out = "none" THEN <<>> ELSE << <<st.out, ep>> >>]

\* Statements in order, stopping at the first that raises; what ran stays bound.
RECURSIVE ExecStmts(_, _, _, _)
ExecStmts(stmts, nsp, e, ep) ==
    IF stmts = <<>> THEN [ns |-> nsp, err |-> NoError, events |-> <<>>]
    ELSE LET r == ExecStmt(Head(stmts), nsp, e, ep)
         IN  IF r.err.kind # "none" THEN r
             ELSE LET rest == ExecStmts(Tail(stmts), r.ns, e, ep)
                  IN  [ns |-> rest.ns, err |-> rest.err,
                       events |-> r.events \o rest.events]

\* "for epoch in range(count)": the body once per epoch ep = 1..count.
RECURSIVE ExecLoop(_, _, _, _)
ExecLoop(loop, ep, nsp, e) ==
    IF ep > loop.count THEN [ns |-> nsp, err |-> NoError, events |-> <<>>]
    ELSE LET r == ExecStmts(loop.body, nsp, e, ep)
         IN  IF r.err.kind # "none" THEN r
             ELSE LET rest == ExecLoop(loop, ep + 1, r.ns, e)
                  IN  [ns |-> rest.ns, err |-> rest.err,
                       events |-> r.events \o rest.events]

\* One cell: a cell that does not compile executes nothing.
ExecCell(cell, nsp, e) ==
    IF ~cell.syntaxOK
    THEN [ns |-> nsp, err |-> [kind |-> "SyntaxError", name |-> "none"], events |-> <<>>]
    ELSE LET r == ExecStmts(cell.stmts, nsp, e, 0)
         IN  IF r.err.kind # "none" THEN r
             ELSE LET l == ExecLoop(cell.loop, 1, r.ns, e)
                  IN  [ns |-> l.ns, err |-> l.err, events |-> r.events \o l.events]

NbIdle ==
    /\ cellIdx = 0
    /\ ns = {}
    /\ env = {}
    /\ runAll = FALSE
    /\ kstatus = "idle"
    /\ lastError = [kind |-> "none", name |-> "none", cell |-> 0]
    /\ failed = {}
    /\ events = <<>>

FwIdle ==
    /\ genv = [bound |-> {}, trg_len |-> 0, decoder_input |-> "<sos>"]
    /\ trg = <<>>
    /\ fpc = "idle"
    /\ ferr = NoError
    /\ outputs = <<>>
    /\ hidden = "none"
    /\ step = 0
    /\ callLog = <<>>

NoResult == [num |-> 0, den |-> 1]

NoLossArgs == [outRows |-> {}, trgRows |-> {}]

TrIdle ==
    /\ tfn = "none"
    /\ nBatches = 0
    /\ tpc = "idle"
    /\ terr = NoError
    /\ bi = 0
    /\ trgLen = 0
    /\ lossArgs = NoLossArgs
    /\ lossVal = 0
    /\ losses = <<>>
    /\ epoch_loss = 0
    /\ grad = {}
    /\ clipped = FALSE
    /\ ops = <<>>
    /\ updates = <<>>
    /\ result = NoResult

NoCall == [made |-> FALSE, x |-> 0, selfN |-> 0, method |-> "none", value |-> 0]

AdIdle ==
    /\ adder = [bound |-> FALSE, n |-> 0]
    /\ builtN = 0
    /\ ncalls = 0
    /\ lastCall = NoCall

NoObject == [bound |-> FALSE, id |-> 0, cls |-> 0, dict |-> {}]

NoHello == [made |-> FALSE, recv |-> 0, args |-> <<>>, err |-> "none"]

NoSet == [recv |-> 0, value |-> "", forms |-> {}]

PeIdle ==
    /\ personDef = 0
    /\ p = NoObject
    /\ nObjs = 0
    /\ lastHello = [via \in {"class", "instance"} |-> NoHello]
    /\ lastSet = NoSet

LpIdle ==
    /\ lpc = "idle"
    /\ lepoch = 0
    /\ lpos = 0

InitNotebook ==
    /\ FwIdle /\ TrIdle /\ AdIdle /\ PeIdle /\ LpIdle
    /\ cellIdx = 1
    /\ ns = {}
    /\ env \in SUBSET Externals
    /\ runAll \in BOOLEAN
    /\ kstatus = "idle"
    /\ lastError = [kind |-> "none", name |-> "none", cell |-> 0]
    /\ failed = {}
    /\ events = <<>>

\* The kernel executes the next code cell.
RunCell ==
    /\ kstatus # "halted"
    /\ cellIdx <= NCells
    /\ LET r == ExecCell(Cells[cellIdx], ns, env)
       IN  /\ ns' = r.ns
           /\ events' = events \o r.events
           /\ IF r.err.kind = "none"
              THEN /\ kstatus' = "ok"
                   /\ lastError' = lastError
                   /\ failed' = failed
              ELSE /\ kstatus' = IF runAll THEN "halted" ELSE "error"
                   /\ failed' = failed \cup {cellIdx}
                   /\ lastError' = [kind |-> r.err.kind, name |-> r.err.name,
                                    cell |-> cellIdx]
    /\ cellIdx' = cellIdx + 1
    /\ UNCHANGED <<env, runAll>>
    /\ UNCHANGED <<fwVars, trVars, adVars, peVars, lpVars>>

NextNotebook == RunCell

SpecNotebook == InitNotebook /\ [][NextNotebook]_vars

\* The kernel has nothing left to run.
Finished == kstatus = "halted" \/ cellIdx > NCells

IndexOf(cell) == CHOOSE i \in 1..NCells : Cells[i] = cell

\* What the training loop and the test cell run and print.
LoopAndTestEvents ==
    {"train", "evaluate", "epoch_report", "train_report", "valid_report", "test_report"}

\* The exception comes from a blank of the notebook: an assignment without
\* its right-hand side, or a name the learner was to bind.
FromLearnerBlank(err) ==
    \/ err.kind = "SyntaxError"
    \/ err.kind \in {"NameError"} /\ err.name \in LearnerNames

(***************************************************************************)
(* Claim about the notebook as shipped, checked under SpecNotebook.        *)
(***************************************************************************)

\* C1: running the code cells in order never gets through the training loop
\* nor to the test-loss report: neither train nor evaluate ever returns, no
\* epoch, train-loss, validation-loss or test-loss line is ever printed, the
\* training-loop cell raises whenever it is run, and the run ends in an
\* error, which comes from a blank left to the learner whenever the run is
\* cell by cell or the environment provides every library and data set.
C1_NeverTrainsNorReports ==
    /\ \A k \in 1..Len(events) : events[k][1] \notin LoopAndTestEvents
    /\ cellIdx > IndexOf(CellTrainingLoop) => IndexOf(CellTrainingLoop) \in failed
    /\ Finished => kstatus \in {"error", "halted"}
    /\ (Finished /\ (~runAll \/ env = Externals)) => FromLearnerBlank(lastError)

\* Every cell was run, cell by cell, in an environment that provides every
\* library and data set; the training loop and the test cell raised.
C1_Witness ==
    /\ cellIdx > NCells
    /\ ~runAll
    /\ env = Externals
    /\ {IndexOf(CellTrainingLoop), IndexOf(CellTest)} \subseteq failed
    /\ lastError.cell = IndexOf(CellTest)

(***************************************************************************)
(* Part 2: Seq2Seq.forward(src, trg).                                      *)
(*                                                                         *)
(* forward assigns neither trg_len, batch_size, trg_vocab_size nor         *)
(* decoder_input (each assignment is a comment left to the learner), and   *)
(* never device, so Python resolves the five names in the kernel's globals *)
(* when the line that reads them runs.  The notebook's own cells bind only *)
(* device; a session may bind any of them.  genv draws every case,         *)
(* genv.bound = {} and {"device"} being the notebook as shipped.           *)
(*                                                                         *)
(* self.encoder and self.decoder are the constructor's arguments: a call   *)
(* returns some value or raises.  A row of a tensor stands for all the     *)
(* sentences of the batch at that position: forward never indexes the      *)
(* batch dimension.                                                        *)
(***************************************************************************)
MaxBody == 2

MaxTrgLen == MaxBody + 2

SOS == "<sos>"
EOS == "<eos>"
Words == {"a", "b"}
Tokens == {SOS, EOS} \cup Words

\* Hidden states an encoder or a decoder call may return.
Hiddens == {"h1", "h2"}

\* Rows a decoder call may return: the token its logits favour.
Predictions == Words

FreeNames == {"trg_len", "batch_size", "trg_vocab_size", "device", "decoder_input"}

\* Sequences over S of length 0..n.
RECURSIVE SeqsUpTo(_, _)
SeqsUpTo(S, n) ==
    IF n = 0 THEN {<<>>}
    ELSE LET shorter == SeqsUpTo(S, n - 1)
         IN  shorter \cup {Append(q, x) : q \in {r \in shorter : Len(r) = n - 1}, x \in S}

\* The TRG field wraps every sentence in <sos> ... <eos>.
TargetTensors == {<<SOS>> \o body \o <<EOS>> : body \in SeqsUpTo(Words, MaxBody)}

\* trg[i] in the source's 0-based indexing.
TrgAt(i) == trg[i + 1]

Raise(kind, name) ==
    /\ fpc' = "raised"
    /\ ferr' = [kind |-> kind, name |-> name]

InitForward ==
    /\ NbIdle /\ TrIdle /\ AdIdle /\ PeIdle /\ LpIdle
    /\ \E b \in SUBSET FreeNames, n \in 0..MaxTrgLen, d \in Tokens :
          /\ "trg_len" \notin b => n = 0
          /\ "decoder_input" \notin b => d = SOS
          /\ genv = [bound |-> b, trg_len |-> n, decoder_input |-> d]
    /\ trg \in TargetTensors
    /\ fpc = "alloc"
    /\ ferr = NoError
    /\ outputs = <<>>
    /\ hidden = "none"
    /\ step = 0
    /\ callLog = <<>>

\* Alloc with the three commented assignments above it in force
\* ("batch_size = trg.shape[1]", "trg_len = trg.shape[0]", ...): the sizes
\* come from trg and only device is looked up.
AllocSizesFromTrg ==
    /\ fpc = "alloc"
    /\ IF "device" \notin genv.bound
       THEN /\ Raise("NameError", "device")
            /\ UNCHANGED outputs
       ELSE /\ outputs' = [row \in 1..Len(trg) |-> "zeros"]
            /\ fpc' = "encode"
            /\ UNCHANGED ferr
    /\ UNCHANGED <<genv, trg, hidden, step, callLog>>
    /\ UNCHANGED <<nbVars, trVars, adVars, peVars, lpVars>>

\* outputs = torch.zeros(trg_len, batch_size, trg_vocab_size).to(device)
Alloc ==
    /\ fpc = "alloc"
    /\ LET u == FirstUnbound(<<"trg_len", "batch_size", "trg_vocab_size", "device">>,
                             genv.bound)
       IN  IF u # "none"
           THEN /\ Raise("NameError", u)
                /\ UNCHANGED outputs
           ELSE /\ outputs' = [row \in 1..genv.trg_len |-> "zeros"]
                /\ fpc' = "encode"
                /\ UNCHANGED ferr
    /\ UNCHANGED <<genv, trg, hidden, step, callLog>>
    /\ UNCHANGED <<nbVars, trVars, adVars, peVars, lpVars>>

\* hidden = self.encoder(src), the encoder returning h.
EncodeReturns(h) ==
    /\ hidden' = h
    /\ callLog' = Append(callLog, [fn |-> "encoder", step |-> 0, input |-> "src",
                                   hiddenIn |-> "none", hiddenOut |-> h,
                                   output |-> "none"])
    /\ fpc' = "loop"
    /\ step' = 1
    /\ UNCHANGED <<ferr, outputs>>

Encode ==
    /\ fpc = "encode"
    /\ \/ \E h \in Hiddens : EncodeReturns(h)
       \/ /\ Raise("CalleeError", "encoder")
          /\ UNCHANGED <<hidden, callLog, step, outputs>>
    /\ UNCHANGED <<genv, trg>>
    /\ UNCHANGED <<nbVars, trVars, adVars, peVars, lpVars>>

\* DecodeReturns with the returned hidden state dropped
\* ("output, _ = self.decoder(decoder_input, hidden)").
DecodeReturnsKeepsContext(o, h) ==
    /\ callLog' = Append(callLog, [fn |-> "decoder", step |-> step,
                                   input |-> genv.decoder_input,
                                   hiddenIn |-> hidden, hiddenOut |-> h,
                                   output |-> o])
    /\ hidden' = hidden
    /\ outputs' = [outputs EXCEPT ![step + 1] = o]
    /\ step' = step + 1
    /\ UNCHANGED <<fpc, ferr>>

\* One iteration of "for step in range(1, trg_len)", the decoder returning
\* (o, h): output, hidden = self.decoder(decoder_input, hidden);
\* outputs[step] = output.  The line that would rebind decoder_input is a
\* comment, so the name keeps resolving to the global.
DecodeReturns(o, h) ==
    /\ callLog' = Append(callLog, [fn |-> "decoder", step |-> step,
                                   input |-> genv.decoder_input,
                                   hiddenIn |-> hidden, hiddenOut |-> h,
                                   output |-> o])
    /\ hidden' = h
    /\ outputs' = [outputs EXCEPT ![step + 1] = o]
    /\ step' = step + 1
    /\ UNCHANGED <<fpc, ferr>>

DecodeStep ==
    /\ fpc = "loop"
    /\ step < genv.trg_len
    /\ IF "decoder_input" \notin genv.bound
       THEN /\ Raise("NameError", "decoder_input")
            /\ UNCHANGED <<hidden, callLog, step, outputs>>
       ELSE \/ \E o \in Predictions, h \in Hiddens : DecodeReturns(o, h)
            \/ /\ Raise("CalleeError", "decoder")
               /\ UNCHANGED <<hidden, callLog, step, outputs>>
    /\ UNCHANGED <<genv, trg>>
    /\ UNCHANGED <<nbVars, trVars, adVars, peVars, lpVars>>

\* return outputs
Return ==
    /\ fpc = "loop"
    /\ step >= genv.trg_len
    /\ fpc' = "returned"
    /\ UNCHANGED <<genv, trg, ferr, outputs, hidden, step, callLog>>
    /\ UNCHANGED <<nbVars, trVars, adVars, peVars, lpVars>>

NextForward == Alloc \/ Encode \/ DecodeStep \/ Return

SpecForward == InitForward /\ [][NextForward]_vars

\* The decoder calls made so far, in order.
DecoderCalls == SelectSeq(callLog, LAMBDA c : c.fn = "decoder")

EncoderCalls == SelectSeq(callLog, LAMBDA c : c.fn = "encoder")

(***************************************************************************)
(* Part 3: train(model, iterator, optimizer, criterion, clip), lines       *)
(* 761-793, and evaluate(model, iterator, criterion), lines 816-837.       *)
(*                                                                         *)
(* model, iterator, optimizer and criterion are arguments: a call of       *)
(* model or of criterion returns some value or raises.  The parameters'    *)
(* .grad is the set of batches whose backward pass is summed in it, empty  *)
(* for a model that has not been trained: loss.backward() adds to .grad,   *)
(* and nothing but zero_grad() empties it.  A loss value is a small        *)
(* natural; the quotient returned is kept exact, as num / den.             *)
(***************************************************************************)
MaxBatches == 3

MaxLoss == 2

RaiseT(kind, name) ==
    /\ tpc' = "raised"
    /\ terr' = [kind |-> kind, name |-> name]

\* The sum of a sequence of numbers.
RECURSIVE SumSeq(_)
SumSeq(q) == IF q = <<>> THEN 0 ELSE Head(q) + SumSeq(Tail(q))

InitTrain ==
    /\ NbIdle /\ FwIdle /\ AdIdle /\ PeIdle /\ LpIdle
    /\ tfn \in {"train", "evaluate"}
    /\ nBatches \in 0..MaxBatches
    /\ tpc = "start"
    /\ terr = NoError
    /\ bi = 0
    /\ trgLen = 0
    /\ lossArgs = NoLossArgs
    /\ lossVal = 0
    /\ losses = <<>>
    /\ epoch_loss = 0
    /\ grad = {}
    /\ clipped = FALSE
    /\ ops = <<>>
    /\ updates = <<>>
    /\ result = NoResult

\* model.train() / model.eval(); epoch_loss = 0
Enter ==
    /\ tpc = "start"
    /\ epoch_loss' = 0
    /\ tpc' = "top"
    /\ UNCHANGED <<tfn, nBatches, terr, bi, trgLen, lossArgs, lossVal, losses,
                   grad, clipped, ops, updates, result>>
    /\ UNCHANGED <<nbVars, fwVars, adVars, peVars, lpVars>>

\* for i, batch in enumerate(iterator): src = batch.src; trg = batch.trg
NextBatch ==
    /\ tpc = "top"
    /\ bi < nBatches
    /\ bi' = bi + 1
    /\ trgLen' \in 2..MaxTrgLen
    /\ ops' = <<>>
    /\ tpc' = IF tfn = "train" THEN "zero" ELSE "forward"
    /\ UNCHANGED <<tfn, nBatches, terr, lossArgs, lossVal, losses, epoch_loss,
                   grad, clipped, updates, result>>
    /\ UNCHANGED <<nbVars, fwVars, adVars, peVars, lpVars>>

\* optimizer.step(): the parameters move by what .grad holds at that moment.
OptimizerStep ==
    /\ updates' = Append(updates, [batch |-> bi, grad |-> grad, after |-> ops])
    /\ ops' = Append(ops, "step")

\* The statement under "# zero the gradients" (line 772): optimizer.step().
ZeroGradients ==
    /\ tpc = "zero"
    /\ OptimizerStep
    /\ tpc' = "forward"
    /\ UNCHANGED <<tfn, nBatches, terr, bi, trgLen, lossArgs, lossVal, losses,
                   epoch_loss, grad, clipped, result>>
    /\ UNCHANGED <<nbVars, fwVars, adVars, peVars, lpVars>>

\* output = model(src, trg)
ForwardPass ==
    /\ tpc = "forward"
    /\ \/ /\ ops' = Append(ops, "forward")
          /\ tpc' = "loss"
          /\ UNCHANGED terr
       \/ /\ RaiseT("CalleeError", "model")
          /\ UNCHANGED ops
    /\ UNCHANGED <<tfn, nBatches, bi, trgLen, lossArgs, lossVal, losses, epoch_loss,
                   grad, clipped, updates, result>>
    /\ UNCHANGED <<nbVars, fwVars, adVars, peVars, lpVars>>

\* The rows of a tensor of len rows that criterion(output, trg) is handed:
\* output and trg are passed whole (the reshaping is a TODO comment).
LossRows(len) == 0..(len - 1)

\* loss = criterion(output, trg)
ComputeLoss ==
    /\ tpc = "loss"
    /\ lossArgs' = [outRows |-> LossRows(trgLen), trgRows |-> LossRows(trgLen)]
    /\ \/ \E v \in 0..MaxLoss :
             /\ lossVal' = v
             /\ losses' = Append(losses, v)
             /\ ops' = Append(ops, "loss")
             /\ tpc' = IF tfn = "train" THEN "backward" ELSE "accumulate"
             /\ UNCHANGED terr
       \/ /\ RaiseT("CalleeError", "criterion")
          /\ UNCHANGED <<lossVal, losses, ops>>
    /\ UNCHANGED <<tfn, nBatches, bi, trgLen, epoch_loss, grad, clipped, updates, result>>
    /\ UNCHANGED <<nbVars, fwVars, adVars, peVars, lpVars>>

\* loss.backward()
Backward ==
    /\ tpc = "backward"
    /\ grad' = grad \cup {bi}
    /\ clipped' = FALSE
    /\ ops' = Append(ops, "backward")
    /\ tpc' = "clip"
    /\ UNCHANGED <<tfn, nBatches, terr, bi, trgLen, lossArgs, lossVal, losses,
                   epoch_loss, updates, result>>
    /\ UNCHANGED <<nbVars, fwVars, adVars, peVars, lpVars>>

\* nn.utils.clip_grad_norm_(model.parameters(), clip)
ClipGradients ==
    /\ tpc = "clip"
    /\ clipped' = TRUE
    /\ ops' = Append(ops, "clip")
    /\ tpc' = "update"
    /\ UNCHANGED <<tfn, nBatches, terr, bi, trgLen, lossArgs, lossVal, losses,
                   epoch_loss, grad, updates, result>>
    /\ UNCHANGED <<nbVars, fwVars, adVars, peVars, lpVars>>

\* The statement under "# update the parameters of the model" (line 788).
UpdateParameters ==
    /\ tpc = "update"
    /\ OptimizerStep
    /\ tpc' = "accumulate"
    /\ UNCHANGED <<tfn, nBatches, terr, bi, trgLen, lossArgs, lossVal, losses,
                   epoch_loss, grad, clipped, result>>
    /\ UNCHANGED <<nbVars, fwVars, adVars, peVars, lpVars>>

\* AddBatchLoss with the sum overwritten ("epoch_loss = loss.item()").
AddBatchLossOverwrites(acc, v) == v

\* epoch_loss += loss.item()
AddBatchLoss(acc, v) == acc + v

AccumulateLoss ==
    /\ tpc = "accumulate"
    /\ epoch_loss' = AddBatchLoss(epoch_loss, lossVal)
    /\ tpc' = "top"
    /\ UNCHANGED <<tfn, nBatches, terr, bi, trgLen, lossArgs, lossVal, losses,
                   grad, clipped, ops, updates, result>>
    /\ UNCHANGED <<nbVars, fwVars, adVars, peVars, lpVars>>

\* return epoch_loss / len(iterator)
ReturnAverage ==
    /\ tpc = "top"
    /\ bi = nBatches
    /\ IF nBatches = 0
       THEN /\ RaiseT("ZeroDivisionError", "len(iterator)")
            /\ UNCHANGED result
       ELSE /\ result' = [num |-> epoch_loss, den |-> nBatches]
            /\ tpc' = "returned"
            /\ UNCHANGED terr
    /\ UNCHANGED <<tfn, nBatches, bi, trgLen, lossArgs, lossVal, losses, epoch_loss,
                   grad, clipped, ops, updates>>
    /\ UNCHANGED <<nbVars, fwVars, adVars, peVars, lpVars>>

NextTrain ==
    \/ Enter \/ NextBatch \/ ZeroGradients \/ ForwardPass \/ ComputeLoss
    \/ Backward \/ ClipGradients \/ UpdateParameters \/ AccumulateLoss \/ ReturnAverage

SpecTrain == InitTrain /\ [][NextTrain]_vars

(***************************************************************************)
(* Part 4: the Adder cells of the tutorial notebook, lines 1230-1263.      *)
(***************************************************************************)
MaxAbs == 4

MaxCalls == 3

\* The integers the cells are run with (Python integers do not overflow).
Values == (0 - MaxAbs)..MaxAbs

\* The methods the class statement defines.
AdderMethods == {"__init__", "__call__"}

\* def __init__(self, n): self.n = n
Adder__init__(n) == [bound |-> TRUE, n |-> n]

\* Adder__call__ keeping a running total ("self.n += x; return self.n").
Adder__call__Accumulates(self, x) ==
    [self |-> [self EXCEPT !.n = self.n + x], value |-> self.n + x]

\* def __call__(self, x): return self.n + x
Adder__call__(self, x) == [self |-> self, value |-> self.n + x]

InitAdder ==
    /\ NbIdle /\ FwIdle /\ TrIdle /\ PeIdle /\ LpIdle
    /\ adder = [bound |-> FALSE, n |-> 0]
    /\ builtN = 0
    /\ ncalls = 0
    /\ lastCall = NoCall

\* plus_3 = Adder(3), for any argument n
Construct ==
    /\ \E n \in Values :
          /\ adder' = Adder__init__(n)
          /\ builtN' = n
    /\ ncalls' = 0
    /\ UNCHANGED lastCall
    /\ UNCHANGED <<nbVars, fwVars, trVars, peVars, lpVars>>

\* plus_3(4), for any argument x: calling the instance runs the "__call__"
\* its class defines.
CallInstance ==
    /\ adder.bound
    /\ ncalls < MaxCalls
    /\ "__call__" \in AdderMethods
    /\ \E x \in Values :
          LET r == Adder__call__(adder, x)
          IN  /\ adder' = r.self
              /\ lastCall' = [made |-> TRUE, x |-> x, selfN |-> adder.n,
                              method |-> "__call__", value |-> r.value]
    /\ ncalls' = ncalls + 1
    /\ UNCHANGED builtN
    /\ UNCHANGED <<nbVars, fwVars, trVars, peVars, lpVars>>

NextAdder == Construct \/ CallInstance

SpecAdder == InitAdder /\ [][NextAdder]_vars

(***************************************************************************)
(* Part 5: the Person cells of the tutorial notebook.                      *)
(*                                                                         *)
(* The name Person is bound three times, to three class statements:        *)
(*   1  def say_hello(): print('Hello!')                                   *)
(*   2  def say_hello( *args): print("say_hello args:", args)              *)
(*   3  def set_name(instance_obj, new_name): setattr(...)                 *)
(* An instance keeps the class it was constructed from; rebinding p drops  *)
(* the only reference to the instance p named before.  A cell that raises  *)
(* while it looks a name or an attribute up (NameError, AttributeError)    *)
(* calls nothing and changes nothing: it is a stuttering step.             *)
(***************************************************************************)
MaxObjects == 2

\* The strings the cells pass to set_name.
PersonNames == {"Alex", "John"}

\* Values: a reference to an instance, or a string.
ObjRef(i) == [obj |-> i, str |-> ""]

Str(t) == [obj |-> 0, str |-> t]

\* The functions class statement k defines.
PersonMethods(k) ==
    IF k \in {1, 2} THEN {"say_hello"}
    ELSE IF k = 3 THEN {"set_name"}
    ELSE {}

\* BindArgs with the receiver never passed.
BindArgsDropsInstance(via, self, explicit) == explicit

\* The positional arguments a function found in a class is called with:
\* looked up through an instance it is a method bound to that instance,
\* which goes first; looked up through the class it is the plain function.
BindArgs(via, self, explicit) ==
    IF via = "instance" THEN <<self>> \o explicit ELSE explicit

\* say_hello of class statement k called with args: the exception it raises.
\* "def say_hello()" takes no argument, "def say_hello( *args)" any number.
Person_say_hello(k, args) ==
    IF k = 1 /\ Len(args) # 0 THEN "TypeError" ELSE "none"

\* setattr(obj, key, value) on an instance dictionary.
SetAttr(dict, key, value) ==
    {kv \in dict : kv[1] # key} \cup {<<key, value>>}

\* Person_set_name with the last two arguments of setattr swapped.
Person_set_nameSwapped(args, obj) ==
    IF Len(args) # 2 THEN [err |-> "TypeError", obj |-> obj]
    ELSE IF args[1].obj # obj.id THEN [err |-> "AttributeError", obj |-> obj]
    ELSE [err |-> "none",
          obj |-> [obj EXCEPT !.dict = SetAttr(obj.dict, args[2].str, Str("name"))]]

\* def set_name(instance_obj, new_name): setattr(instance_obj, 'name', new_name)
\* called with args, obj being the one live instance: [err, obj].
Person_set_name(args, obj) ==
    IF Len(args) # 2 THEN [err |-> "TypeError", obj |-> obj]
    ELSE IF args[1].obj # obj.id THEN [err |-> "AttributeError", obj |-> obj]
    ELSE [err |-> "none",
          obj |-> [obj EXCEPT !.dict = SetAttr(obj.dict, "name", args[2])]]

InitPerson ==
    /\ NbIdle /\ FwIdle /\ TrIdle /\ AdIdle /\ LpIdle
    /\ personDef = 0
    /\ p = NoObject
    /\ nObjs = 0
    /\ lastHello = [via \in {"class", "instance"} |-> NoHello]
    /\ lastSet = NoSet

\* "class Person: ..." (the k-th of the three cells): the name is rebound.
DefinePerson(k) ==
    /\ personDef' = k
    /\ UNCHANGED <<p, nObjs, lastHello, lastSet>>
    /\ UNCHANGED <<nbVars, fwVars, trVars, adVars, lpVars>>

\* p = Person(): no class statement defines __init__, the instance starts
\* with an empty dictionary.
NewPerson ==
    /\ personDef # 0
    /\ nObjs < MaxObjects
    /\ nObjs' = nObjs + 1
    /\ p' = [bound |-> TRUE, id |-> nObjs + 1, cls |-> personDef, dict |-> {}]
    /\ UNCHANGED <<personDef, lastHello, lastSet>>
    /\ UNCHANGED <<nbVars, fwVars, trVars, adVars, lpVars>>

\* Person.say_hello()
SayHelloClass ==
    /\ "say_hello" \in PersonMethods(personDef)
    /\ LET args == BindArgs("class", ObjRef(0), <<>>)
       IN  lastHello' = [lastHello EXCEPT !["class"] =
                            [made |-> TRUE, recv |-> 0, args |-> args,
                             err |-> Person_say_hello(personDef, args)]]
    /\ UNCHANGED <<personDef, p, nObjs, lastSet>>
    /\ UNCHANGED <<nbVars, fwVars, trVars, adVars, lpVars>>

\* p.say_hello(): the function is looked up in the class p was built from.
SayHelloInstance ==
    /\ p.bound
    /\ "say_hello" \in PersonMethods(p.cls)
    /\ LET args == BindArgs("instance", ObjRef(p.id), <<>>)
       IN  lastHello' = [lastHello EXCEPT !["instance"] =
                            [made |-> TRUE, recv |-> p.id, args |-> args,
                             err |-> Person_say_hello(p.cls, args)]]
    /\ UNCHANGED <<personDef, p, nObjs, lastSet>>
    /\ UNCHANGED <<nbVars, fwVars, trVars, adVars, lpVars>>

\* A call of set_name with args in form "bound" or "class", the caller having
\* passed the string v: a call that raises leaves everything as it was.
SetNameCall(form, args, v) ==
    LET r == Person_set_name(args, p)
    IN  IF r.err # "none"
        THEN UNCHANGED <<p, lastSet>>
        ELSE /\ p' = r.obj
             /\ lastSet' = [recv |-> p.id, value |-> v,
                            forms |-> (IF lastSet.recv = p.id THEN lastSet.forms ELSE {})
                                      \cup {form}]

\* p.set_name('Alex'), for any string v
SetNameBound(v) ==
    /\ p.bound
    /\ "set_name" \in PersonMethods(p.cls)
    /\ SetNameCall("bound", BindArgs("instance", ObjRef(p.id), <<Str(v)>>), v)
    /\ UNCHANGED <<personDef, nObjs, lastHello>>
    /\ UNCHANGED <<nbVars, fwVars, trVars, adVars, lpVars>>

\* Person.set_name(p, 'John'), for any string v
SetNameClass(v) ==
    /\ p.bound
    /\ "set_name" \in PersonMethods(personDef)
    /\ SetNameCall("class", BindArgs("class", ObjRef(0), <<ObjRef(p.id), Str(v)>>), v)
    /\ UNCHANGED <<personDef, nObjs, lastHello>>
    /\ UNCHANGED <<nbVars, fwVars, trVars, adVars, lpVars>>

NextPerson ==
    \/ \E k \in 1..3 : DefinePerson(k)
    \/ NewPerson
    \/ SayHelloClass
    \/ SayHelloInstance
    \/ \E v \in PersonNames : SetNameBound(v)
    \/ \E v \in PersonNames : SetNameClass(v)

SpecPerson == InitPerson /\ [][NextPerson]_vars

(***************************************************************************)
(* Part 6: the training-loop cell, one statement at a time.                *)
(*                                                                         *)
(* RunCell executes the cell in one step; here the kernel's position in    *)
(* it is state: the statements before the loop, the for statement, each    *)
(* statement of its body.  The statements are those of CellTrainingLoop    *)
(* and each is executed by ExecStmt, as in RunCell.  The kernel runs a     *)
(* cell to its end, hence the fairness.  Whether a call of train or of     *)
(* evaluate returns is the environment's (trainCall, evaluateCall): the    *)
(* cell hands train its arguments as (model, train_iterator, criterion,    *)
(* optimizer, CLIP), and what train does with them is SpecTrain's.         *)
(***************************************************************************)
\* The names the statements of stmts read.
RECURSIVE ReadsOf(_)
ReadsOf(stmts) ==
    IF stmts = <<>> THEN {}
    ELSE LET st == Head(stmts)
         IN  {st.reads[i] : i \in 1..Len(st.reads)} \cup {st.cb[i] : i \in 1..Len(st.cb)}
             \cup ReadsOf(Tail(stmts))

\* The names the cell reads and does not bind itself: what the cells before
\* it, completed by the learner, are to have bound.
LoopFreeNames ==
    (ReadsOf(CellTrainingLoop.stmts) \cup ReadsOf(CellTrainingLoop.loop.body))
        \ (BindsOf(CellTrainingLoop.stmts) \cup BindsOf(CellTrainingLoop.loop.body))

\* The kernel is about to run the cell: any of the names it reads may be
\* bound, the calls of train and of evaluate may return or not.
InitLoop ==
    /\ FwIdle /\ TrIdle /\ AdIdle /\ PeIdle
    /\ cellIdx = IndexOf(CellTrainingLoop)
    /\ ns \in SUBSET LoopFreeNames
    /\ \E x \in SUBSET {"trainCall", "evaluateCall"} : env = Externals \ x
    /\ runAll \in BOOLEAN
    /\ kstatus = "idle"
    /\ lastError = [kind |-> "none", name |-> "none", cell |-> 0]
    /\ failed = {}
    /\ events = <<>>
    /\ lpc = "idle"
    /\ lepoch = 0
    /\ lpos = 0

\* The cell ends with exception err.
LoopRaises(err) ==
    /\ lpc' = "raised"
    /\ kstatus' = IF runAll THEN "halted" ELSE "error"
    /\ failed' = failed \cup {cellIdx}
    /\ lastError' = [kind |-> err.kind, name |-> err.name, cell |-> cellIdx]
    /\ cellIdx' = cellIdx + 1

\* N_EPOCHS = 10; CLIP = 2; best_valid_loss = float('inf')
EnterLoopCell ==
    /\ lpc = "idle"
    /\ LET r == IF CellTrainingLoop.syntaxOK
                THEN ExecStmts(CellTrainingLoop.stmts, ns, env, 0)
                ELSE [ns |-> ns, err |-> [kind |-> "SyntaxError", name |-> "none"],
                      events |-> <<>>]
       IN  /\ ns' = r.ns
           /\ events' = events \o r.events
           /\ IF r.err.kind # "none"
              THEN LoopRaises(r.err)
              ELSE /\ lpc' = "iter"
                   /\ UNCHANGED <<kstatus, failed, lastError, cellIdx>>
    /\ UNCHANGED <<env, runAll, lepoch, lpos>>
    /\ UNCHANGED <<fwVars, trVars, adVars, peVars>>

\* for epoch in range(N_EPOCHS): the next iteration, or the end of the cell.
ForEpoch ==
    /\ lpc = "iter"
    /\ IF lepoch < CellTrainingLoop.loop.count
       THEN /\ lepoch' = lepoch + 1
            /\ lpos' = 1
            /\ lpc' = "body"
            /\ UNCHANGED <<kstatus, cellIdx>>
       ELSE /\ lpc' = "done"
            /\ kstatus' = "ok"
            /\ cellIdx' = cellIdx + 1
            /\ UNCHANGED <<lepoch, lpos>>
    /\ UNCHANGED <<ns, env, runAll, lastError, failed, events>>
    /\ UNCHANGED <<fwVars, trVars, adVars, peVars>>

\* The next statement of the loop's body.
LoopStmt ==
    /\ lpc = "body"
    /\ LET body == CellTrainingLoop.loop.body
           r == ExecStmt(body[lpos], ns, env, lepoch)
       IN  /\ ns' = r.ns
           /\ events' = events \o r.events
           /\ IF r.err.kind # "none"
              THEN /\ LoopRaises(r.err)
                   /\ UNCHANGED lpos
              ELSE /\ IF lpos < Len(body)
                      THEN lpos' = lpos + 1 /\ lpc' = "body"
                      ELSE lpos' = lpos /\ lpc' = "iter"
                   /\ UNCHANGED <<kstatus, failed, lastError, cellIdx>>
    /\ UNCHANGED <<env, runAll, lepoch>>
    /\ UNCHANGED <<fwVars, trVars, adVars, peVars>>

NextLoop == EnterLoopCell \/ ForEpoch \/ LoopStmt

SpecLoop == InitLoop /\ [][NextLoop]_vars /\ WF_vars(NextLoop)

(***************************************************************************)
(* Claims about Seq2Seq.forward, checked under SpecForward.                *)
(***************************************************************************)

C6_GradientOfCurrentBatchOnly ==
    tfn = "train" =>
        /\ tpc \in {"forward", "loss", "backward"} => grad = {}
        /\ tpc \in {"clip", "update", "accumulate"} => grad = {bi}

\* The optimizer steps of batch b that move the parameters: those made
\* while .grad holds something.
ParameterUpdates(b) == SelectSeq(updates, LAMBDA u : u.batch = b /\ u.grad # {})

\* Whether x occurs in the sequence q.
Occurs(x, q) == \E k \in 1..Len(q) : q[k] = x

\* C7: an iteration of train runs forward pass, loss, backward pass and
\* clipping in that order and then the optimizer step, and the parameters
\* are updated exactly once per batch, after that batch's backward pass and
\* clipping.
C7_OneUpdateAfterBackward ==
    (tfn = "train" /\ tpc = "accumulate") =>
        /\ SelectSeq(ops, LAMBDA o : o # "step") = <<"forward", "loss", "backward", "clip">>
        /\ ops[Len(ops)] = "step"
        /\ Len(ParameterUpdates(bi)) = 1
        /\ Occurs("backward", ParameterUpdates(bi)[1].after)
        /\ Occurs("clip", ParameterUpdates(bi)[1].after)

\* C8: train and evaluate return the sum of the per-batch losses divided by
\* the number of batches, every batch counted once.
C8_AverageLoss ==
    tpc = "returned" =>
        /\ Len(losses) = nBatches
        /\ result.num = SumSeq(losses)
        /\ result.den = nBatches
        /\ nBatches >= 1

\* train has returned the average of two or more batches with different,
\* non-zero losses.
C8_Witness ==
    /\ tpc = "returned"
    /\ tfn = "train"
    /\ nBatches >= 2
    /\ losses[1] > 0 /\ losses[2] > losses[1]
    /\ result = [num |-> SumSeq(losses), den |-> nBatches]

\* C9: the loss of a batch is computed over the positions 1..trg_len-1 only:
\* row 0 (<sos>) of the output and of the target is never handed to the
\* criterion.
C9_SosRowSlicedOff ==
    /\ 0 \notin lossArgs.outRows
    /\ 0 \notin lossArgs.trgRows

(***************************************************************************)
(* Claim about Seq2Seq.forward as shipped, checked under SpecForward.      *)
(***************************************************************************)

\* C13: with the globals the shipped notebook can bind, every call of
\* Seq2Seq.forward fails with a NameError for a name the method never assigns
\* (trg_len, the first of trg_len, batch_size, trg_vocab_size to be read)
\* where the outputs buffer is allocated: nothing is allocated, neither the
\* encoder nor the decoder is ever called, and the call never returns.
C13_ShippedForwardRaises ==
    genv.bound \subseteq ShippedGlobals =>
        /\ fpc \in {"alloc", "raised"}
        /\ fpc = "raised" => ferr = [kind |-> "NameError", name |-> "trg_len"]
        /\ outputs = <<>>
        /\ callLog = <<>>

\* forward was called on a target of three or more rows in a kernel that had
\* run the shipped cells (device is bound) and raised NameError for trg_len.
C13_Witness ==
    /\ genv.bound = {"device"}
    /\ genv.bound = ShippedGlobals \cap FreeNames
    /\ Len(trg) >= 3
    /\ fpc = "raised"
    /\ ferr = [kind |-> "NameError", name |-> "trg_len"]
    /\ callLog = <<>>

(***************************************************************************)
(* Claim about Adder, checked under SpecAdder.                             *)
(***************************************************************************)

\* C10: a call Adder(n)(x) runs __call__ and returns n + x (Adder(3)(4) is
\* 7), and no number of calls changes the n the instance was built with.
C10_AdderAdds ==
    /\ lastCall.made =>
          /\ lastCall.method = "__call__"
          /\ lastCall.value = lastCall.selfN + lastCall.x
          /\ (lastCall.selfN = 3 /\ lastCall.x = 4) => lastCall.value = 7
    /\ adder.bound => adder.n = builtN

\* Adder(3) has been called more than once, the last time with 4, giving 7.
C10_Witness ==
    /\ adder.bound /\ adder.n = 3 /\ builtN = 3
    /\ ncalls >= 2
    /\ lastCall.made /\ lastCall.selfN = 3 /\ lastCall.x = 4 /\ lastCall.value = 7

(***************************************************************************)
(* Claims about Person, checked under SpecPerson.                          *)
(***************************************************************************)

\* C11 (method binding): say_hello called through an instance, p.say_hello(),
\* receives that instance as its one and only argument; called through the
\* class, Person.say_hello(), it receives no argument at all (args == ()).
C11_MethodBinding ==
    /\ lastHello["instance"].made =>
          /\ lastHello["instance"].recv # 0
          /\ lastHello["instance"].args = <<ObjRef(lastHello["instance"].recv)>>
    /\ lastHello["class"].made =>
          /\ lastHello["class"].args = <<>>
          /\ lastHello["class"].err = "none"

\* say_hello( *args) has been called through the class and through the
\* instance p, and the call through p printed the tuple holding p.
C11_Witness ==
    /\ lastHello["class"].made
    /\ p.bound /\ p.cls = 2
    /\ lastHello["instance"].made
    /\ lastHello["instance"].err = "none"
    /\ lastHello["instance"].args = <<ObjRef(p.id)>>

\* C12: the bound call p.set_name(v) and the class-level call
\* Person.set_name(p, v) have the same effect on the instance p: after
\* either, p.__dict__ == {'name': v}; after any sequence of such calls in
\* either form, the dictionary holds the one key 'name' with the value of the
\* last call (and it is empty as long as no call was made on the instance).
C12_SetNameEitherForm ==
    p.bound =>
        IF lastSet.recv = p.id
        THEN p.dict = {<<"name", Str(lastSet.value)>>}
        ELSE p.dict = {}

\* set_name has been called on the instance p in both forms, the last call
\* with 'John', and p.__dict__ is {'name': 'John'}.
C12_Witness ==
    /\ p.bound
    /\ lastSet.recv = p.id
    /\ lastSet.forms = {"bound", "class"}
    /\ lastSet.value = "John"
    /\ p.dict = {<<"name", Str("John")>>}

(***************************************************************************)
(* Claim about the training loop, checked under SpecLoop.                  *)
(***************************************************************************)

\* What one epoch runs and prints, in order.
EpochEvents(e) ==
    << <<"train", e>>, <<"evaluate", e>>,
       <<"epoch_report", e>>, <<"train_report", e>>, <<"valid_report", e>> >>

\* The epochs from..to, one after the other.
RECURSIVE EventsOfEpochs(_, _)
EventsOfEpochs(from, to) ==
    IF from > to THEN <<>> ELSE EpochEvents(from) \o EventsOfEpochs(from + 1, to)

\* train and evaluate return whenever they are called, and the cells before
\* the loop have bound every name it reads.
CallsReturn ==
    /\ {"trainCall", "evaluateCall"} \subseteq env
    /\ LoopFreeNames \subseteq ns

\* What has run and printed so far is the beginning of ten epochs in order,
\* each of them train, then evaluate, then the three report lines once; the
\* call of evaluate starts right after the epoch's train has returned; the
\* cell ends normally only after N_EPOCHS (10) whole epochs, and it does not
\* raise if train and evaluate return.
C14_EpochOrder ==
    /\ lepoch <= N_EPOCHS
    /\ Len(events) <= 5 * N_EPOCHS
    /\ events = SubSeq(EventsOfEpochs(1, N_EPOCHS), 1, Len(events))
    /\ lpc = "iter" => Len(events) = 5 * lepoch
    /\ lpc = "body" =>
          /\ lepoch >= 1
          /\ Len(events) >= 5 * (lepoch - 1)
          /\ Len(events) <= 5 * lepoch
    /\ (lpc = "body" /\ CellTrainingLoop.loop.body[lpos].out = "evaluate") =>
          /\ events # <<>>
          /\ events[Len(events)] = <<"train", lepoch>>
    /\ lpc = "done" =>
          /\ N_EPOCHS = 10
          /\ lepoch = N_EPOCHS
          /\ events = EventsOfEpochs(1, N_EPOCHS)
    /\ CallsReturn => lpc # "raised"

\* C14: assuming train and evaluate return, the training loop terminates
\* after exactly N_EPOCHS (10) epochs; in every epoch train on the training
\* iterator completes before evaluate on the validation iterator starts, and
\* the epoch's report (epoch number epoch + 1, train and validation loss and
\* perplexity) is emitted only after both, once per epoch, in increasing
\* epoch order.
C14_TrainingLoop ==
    /\ []C14_EpochOrder
    /\ <>(lpc \in {"done", "raised"})
    /\ CallsReturn => <>(lpc = "done")

\* The cell has ended normally: ten epochs, the last report being the
\* validation line of epoch 10.
C14_Witness ==
    /\ CallsReturn
    /\ lpc = "done"
    /\ lepoch = 10
    /\ Len(events) = 50
    /\ events[1] = <<"train", 1>>
    /\ events[50] = <<"valid_report", 10>>

==========================================================================
